---- MODULE Spec2Model ----
(***************************************************************************)
(* The sandboxed execution and artifact pipeline of copilot-mcp-server:    *)
(* run_python_code (tools/python_code_tools.py) calling                    *)
(* execute_python_code (functions/python_code_functions.py), which uploads *)
(* through upload_files_to_workspace (functions/workspace_functions.py).   *)
(*                                                                         *)
(* Every request is one run r.  The runs share the session directory: the  *)
(* set of run folders (dirs) and of files (fs).  A path is <<dir, rel>>:   *)
(* the folder directly under the session directory and the path relative  *)
(* to it.                                                                  *)
(***************************************************************************)
EXTENDS Integers, Sequences, FiniteSets, TLC

\* ------------------------------------------------------------- bounds
\* Files the submitted code (and what it leaves running) writes in a behaviour
\* of one request.
MaxWrites == 2
\* The same for a behaviour of two concurrent requests, both together.
MaxSharedWrites == 1

\* Seconds of wall-clock time a behaviour spans (datetime.now(), line 215).
Seconds == {1, 2}

\* Line 88: the size from which a text file is reported without content.
Ceiling == 10000

Runs == {1, 2}

\* Values of uuid.uuid4().hex[:8]: two draws may be equal or differ.
RunIds == {"a3f9c01d", "7be2440a"}

\* The draws open to run r.  An id matters only by being equal or not to
\* another one, so the first run's draw is fixed: it meets the old folder's
\* name or not by the second it is made in, and the second run's draw is
\* equal to it or not.
RunIdsOf(r) == IF r = 1 THEN {"a3f9c01d"} ELSE RunIds

\* What an earlier run of the session left behind.
OldRunFolder == <<1, "a3f9c01d">>

OldFiles == {<<OldRunFolder, "script.py">>, <<OldRunFolder, "out.csv">>}

\* A folder of the session directory that is no run folder.
Downloads == <<0, "downloads">>

\* Relative paths inside a folder, in ascending string order.
RelOrder == <<"out.csv", "script.py", "sub/script.py">>

Rels == {RelOrder[i] : i \in 1..Len(RelOrder)}

script_filename == "script.py"

InSubdirectory(rel) == rel = "sub/script.py"

RelRank(rel) == CHOOSE i \in 1..Len(RelOrder) : RelOrder[i] = rel

\* ------------------------------------------------------------- inputs
SessionIds == {"", "s1"}

\* What validate_python_code finds in the submitted code.
Codes == {"valid", "syntax_error"}

\* token_provider.get_token(): no token, a token "un=user|...", a token whose
\* first segment is empty (no user id), or the provider raising.
Tokens == {"none", "valid", "nouser", "raises"}

\* What the configuration and the session directory look like (lines 170-211).
Environments ==
    {"ok", "no_container", "container_missing", "session_missing",
     "session_not_dir", "session_unwritable"}

\* os.walk of a folder: complete, an unreadable subdirectory skipped, or the
\* folder itself unreadable or gone.
AllWalkOutcomes == {"ok", "skip_sub", "fail"}

VARIABLES
    run_tree,      \* the entries of one run folder, files and symbolic links
    detected,      \* what the detection of output files made of them
    upload_call,   \* what the workspace, the disk and the store answer for one file
    upload_reply,  \* what upload_file_to_workspace did and returned for it
    faults,        \* whether the disk, the runtime and the workspace may fail
    req,           \* req[r]: the request's inputs
    pc,            \* pc[r]: the run's position
    clock,         \* the last second read by datetime.now()
    dirs,          \* run folders that exist in the session directory
    fs,            \* files that exist in the session directory
    run_dir,       \* run_dir[r]: run_folder_name, <<timestamp, run_id>>
    files_before,  \* files_before[r]
    files_after,   \* files_after[r]
    post_walk,     \* post_walk[r]: how the walk behind files_after went
    disk_after,    \* disk_after[r]: what the run folder held at that walk
    proc,          \* proc[r]: the subprocess
    outcome,       \* outcome[r]: how subprocess.run ended
    emitted,       \* emitted[r]: <<stdout, stderr>> the subprocess wrote
    written,       \* written[r]: files the submitted code wrote
    created,       \* created[r]: those of them that did not exist before
    budget,        \* writes the submitted code has left (bounds the model)
    result,        \* result[r]: the result dictionary
    upload,        \* upload[r]: files_to_upload and the batch so far
    trace,         \* trace[r]: the I/O the run performed, in order
    probed_file,   \* the file a call of _get_file_info is about
    include_contents, \* its include_contents argument
    file_info      \* the record it returned

vars ==
    <<faults, req, pc, clock, dirs, fs, run_dir, files_before, files_after,
      post_walk, disk_after,
      proc, outcome, emitted, written, created, budget, result, upload, trace,
      probed_file, include_contents, file_info, upload_call, upload_reply,
      run_tree, detected>>

NoDir == <<0, "">>

NullUpload == [kind |-> "null"]

\* result as built at lines 135-144.
InitialResult ==
    [success |-> FALSE, output |-> "", error |-> "", errorType |-> "unset",
     has_output_files |-> TRUE, output_files |-> <<>>,
     has_workspace_upload |-> TRUE, workspace_upload |-> NullUpload]

NoUpload == [files |-> <<>>, records |-> <<>>]

Requests ==
    [session_id : SessionIds, code : Codes, token : Tokens, env : Environments,
     entry : {"tool", "direct"}]

script_path(r) == <<run_dir[r], script_filename>>

Event(kind) == <<kind, 0>>

Log(r, events) == [trace EXCEPT ![r] = @ \o events]

\* --------------------------------------------------------- environment
\* What the environment may answer.  With faults every answer is possible;
\* without, the disk, the runtime binary and the workspace service work, and
\* what remains open is what the submitted code does and when.
Answers(all, nominal) == IF faults THEN all ELSE nominal

WalkOutcomes == Answers(AllWalkOutcomes, {"ok"})

MkdirOutcomes == Answers(BOOLEAN, {TRUE})

WriteOutcomes == Answers({"ok", "io_error", "other_error"}, {"ok"})

SpawnOutcomes == Answers({"started", "not_found", "spawn_error"}, {"started"})

StdoutTexts == Answers({"", "stdout text"}, {"stdout text"})

StderrTexts == Answers({"", "stderr text"}, {""})

DecodeOutcomes == Answers(BOOLEAN, {TRUE})

\* Whether what the killed runtime had started goes on running.
SurvivalOutcomes == Answers(BOOLEAN, {FALSE})

\* What the three remote calls of upload_file_to_workspace may answer.
EnsureOutcomes == Answers({"ok", "already_exists", "error"}, {"ok"})

CreateNodeOutcomes == Answers({"absolute_url", "relative_url", "no_url", "error"}, {"absolute_url"})

\* "not_sent": upload_file_to_workspace_url returns before requests.put, the
\* file being gone or the URL not an absolute http(s) one.
PutOutcomes == Answers({"200", "other_status", "exception", "not_sent"}, {"200"})

\* ------------------------------------------------------------ helpers
\* os.path.basename.
Basename(rel) == IF rel = "sub/script.py" THEN "script.py" ELSE rel

\* Mutant of get_files_in_directory: os.listdir instead of os.walk.
get_files_in_directory_TopLevelOnly(directory, walk) ==
    IF walk = "fail" \/ directory \notin dirs
    THEN {}
    ELSE {f \in fs : f[1] = directory /\ ~InSubdirectory(f[2])}

\* _get_files_in_directory: the files under `directory`, recursively.  An
\* error inside the walk is swallowed and what was collected is returned.
get_files_in_directory(directory, walk) ==
    IF walk = "fail" \/ directory \notin dirs
    THEN {}
    ELSE {f \in fs : f[1] = directory
                     /\ (walk = "skip_sub" => ~InSubdirectory(f[2]))}

\* sorted(paths) for the paths of one folder: ascending string order.
RECURSIVE SortedPaths(_)
SortedPaths(S) ==
    IF S = {} THEN <<>>
    ELSE LET least == CHOOSE f \in S : \A g \in S : RelRank(f[2]) <= RelRank(g[2])
         IN <<least>> \o SortedPaths(S \ {least})

Range(s) == {s[i] : i \in 1..Len(s)}

\* ---------------------------------------------------------------- Init
\* A direct call of execute_python_code passes the token itself and does not
\* validate the syntax.
ValidRequest(q) ==
    q.entry = "direct" => (q.token # "raises" /\ q.code = "valid")

InitRun(R) ==
    /\ faults \in BOOLEAN
    /\ budget \in {MaxWrites, MaxSharedWrites}
    /\ req \in [Runs -> {q \in Requests : ValidRequest(q)}]
    /\ pc = [r \in Runs |->
                IF r \notin R THEN "idle"
                ELSE IF req[r].entry = "tool" THEN "tool" ELSE "validate"]
    /\ \A r \in Runs \ R : req[r] = [session_id |-> "s1", code |-> "valid", token |-> "none",
                                     env |-> "ok", entry |-> "direct"]
    /\ clock \in Seconds
    /\ \/ dirs = {} /\ fs = {}
       \/ dirs = {OldRunFolder} /\ fs = OldFiles
    /\ run_dir = [r \in Runs |-> NoDir]
    /\ files_before = [r \in Runs |-> {}]
    /\ files_after = [r \in Runs |-> {}]
    /\ post_walk = [r \in Runs |-> "none"]
    /\ disk_after = [r \in Runs |-> {}]
    /\ proc = [r \in Runs |-> "none"]
    /\ outcome = [r \in Runs |-> "none"]
    /\ emitted = [r \in Runs |-> <<"", "">>]
    /\ written = [r \in Runs |-> {}]
    /\ created = [r \in Runs |-> {}]
    /\ result = [r \in Runs |-> InitialResult]
    /\ upload = [r \in Runs |-> NoUpload]
    /\ trace = [r \in Runs |-> <<>>]

\* No call of _get_file_info is looked at on its own.
NoFile == [name |-> "", size |-> 0, stat |-> "ok", read |-> "ok"]

NoInfo == [path |-> ""]

InfoIdle == probed_file = NoFile /\ include_contents = TRUE /\ file_info = NoInfo

\* A URL is the sequence of its parts, the first being what it starts with:
\* <<"https://", "shock", "node/1">>, the relative <<"/", "node/1">> and
\* <<"node/1">>, the blank <<" ">> and the empty <<>>.
NoUrl == <<>>

NoPut == [raised |-> FALSE, status_code |-> 200, body |-> 0, exception |-> ""]

\* No call of upload_file_to_workspace is looked at on its own.
NoCall ==
    [ensure |-> [raised |-> FALSE, text |-> <<>>],
     create |-> [shape |-> "raises", has_url |-> FALSE, url |-> NoUrl],
     file   |-> "present",
     put    |-> NoPut]

\* An error message: its fixed text and what it quotes, the body by the
\* number of its characters.
NoMessage ==
    [text |-> "", has_status |-> FALSE, status_code |-> 0, body |-> 0, url |-> NoUrl,
     exception |-> ""]

NoReply == [success |-> FALSE, error |-> NoMessage, calls |-> <<>>]

UploadIdle == upload_call = NoCall /\ upload_reply = NoReply

\* The names a run folder may hold next to the script, and its entries when
\* the subprocess starts: the script alone.
EntryNames == {"script.py", "out.csv", "copy.csv", "main.py", "plot.png"}

Absent == [kind |-> "absent", target |-> ""]

RegularFile == [kind |-> "file", target |-> ""]

ScriptOnly == [n \in EntryNames |-> IF n = "script.py" THEN RegularFile ELSE Absent]

NotDetected == [done |-> FALSE, paths |-> {}]

\* No run folder is looked at entry by entry.
TreeIdle == run_tree = ScriptOnly /\ detected = NotDetected

\* One request.  The session directory is empty or holds the folder of an
\* earlier run.
Init == InitRun({1}) /\ InfoIdle /\ UploadIdle /\ TreeIdle /\ faults /\ budget = MaxWrites /\ clock = 1

\* ------------------------------------------------------------- results
Failed(res, msg, type) ==
    [res EXCEPT !.success = FALSE, !.error = msg, !.errorType = type]

\* The dictionaries run_python_code returns itself (lines 102-110, 139-147,
\* 177-182): no output_files and no workspace_upload key.
ToolError(msg, type) ==
    [InitialResult EXCEPT !.error = msg, !.errorType = type,
                          !.has_output_files = FALSE,
                          !.has_workspace_upload = FALSE]

\* Mutant of Finish: a batch with a failed file fails the execution.
Finish_UploadDecides(r, res) ==
    /\ result' = [result EXCEPT ![r] =
                      IF res.workspace_upload.kind = "batch" /\ ~res.workspace_upload.success
                      THEN Failed(res, "Upload failed", "UPLOAD_ERROR")
                      ELSE res]
    /\ pc' = [pc EXCEPT ![r] = "done"]

\* Lines 431-434: the call returns the result.
Finish(r, res) ==
    /\ result' = [result EXCEPT ![r] = res]
    /\ pc' = [pc EXCEPT ![r] = "done"]

\* Mutant of Caught: the failure is handled inside the inner try, whose finally
\* block goes on to detect and upload.
Caught_GoesOn(r, msg, type) ==
    /\ result' = [result EXCEPT ![r] = Failed(@, msg, type)]
    /\ pc' = [pc EXCEPT ![r] = "snapshot_after"]

\* Mutant of Caught: the handler is missing and the exception leaves the call.
Caught_Escapes(r, msg, type) ==
    /\ pc' = [pc EXCEPT ![r] = "raised"]
    /\ UNCHANGED result

\* An exception handler that ends the call: lines 226-232 and 418-429.
Caught(r, msg, type) == Finish(r, Failed(result[r], msg, type))

\* ------------------------------------------------------------- actions
\* run_python_code up to its call of execute_python_code.
run_python_code(r) ==
    /\ pc[r] = "tool"
    /\ IF req[r].session_id = ""
       THEN Finish(r, ToolError("session_id is required for run_python_code", "MISSING_PARAMETER"))
       ELSE IF req[r].token = "raises"
       THEN Finish(r, ToolError("Error executing Python code", "API_ERROR"))
       ELSE IF req[r].code = "syntax_error"
       THEN Finish(r, ToolError("Syntax error", "SYNTAX_ERROR"))
       ELSE /\ pc' = [pc EXCEPT ![r] = "validate"]
            /\ UNCHANGED result
    /\ UNCHANGED <<run_tree, detected, upload_call, upload_reply, probed_file, include_contents, file_info, faults, req, clock, dirs, fs, run_dir, files_before, files_after,
                   post_walk, disk_after,
                   proc, outcome, emitted, written, created, budget, upload, trace>>

\* Mutant of ValidationError: the configuration is checked before the session.
ValidationError_ConfigurationFirst(q) ==
    IF q.env = "no_container" THEN <<"singularity_container not specified in config", "CONFIGURATION_ERROR">>
    ELSE IF q.env = "container_missing" THEN <<"Singularity container not found", "CONFIGURATION_ERROR">>
    ELSE IF q.session_id = "" THEN <<"session_id is required but was not provided", "MISSING_PARAMETER">>
    ELSE IF q.env = "session_missing" THEN <<"Session directory does not exist", "CONFIGURATION_ERROR">>
    ELSE IF q.env = "session_not_dir" THEN <<"Session directory path exists but is not a directory", "CONFIGURATION_ERROR">>
    ELSE IF q.env = "session_unwritable" THEN <<"Session directory is not writable", "CONFIGURATION_ERROR">>
    ELSE <<"", "unset">>

\* execute_python_code, lines 146-211: the parameter and configuration checks.
ValidationError(q) ==
    IF q.session_id = "" THEN <<"session_id is required but was not provided", "MISSING_PARAMETER">>
    ELSE IF q.env = "no_container" THEN <<"singularity_container not specified in config", "CONFIGURATION_ERROR">>
    ELSE IF q.env = "container_missing" THEN <<"Singularity container not found", "CONFIGURATION_ERROR">>
    ELSE IF q.env = "session_missing" THEN <<"Session directory does not exist", "CONFIGURATION_ERROR">>
    ELSE IF q.env = "session_not_dir" THEN <<"Session directory path exists but is not a directory", "CONFIGURATION_ERROR">>
    ELSE IF q.env = "session_unwritable" THEN <<"Session directory is not writable", "CONFIGURATION_ERROR">>
    ELSE <<"", "unset">>

\* The checks of lines 178-205 read the filesystem; those before them do not.
ValidationReadsDisk(q) ==
    q.session_id # "" /\ q.env # "no_container"

ValidateRequest(r) ==
    /\ pc[r] = "validate"
    /\ LET err == ValidationError(req[r]) IN
       IF err[2] # "unset"
       THEN Finish(r, Failed(result[r], err[1], err[2]))
       ELSE /\ pc' = [pc EXCEPT ![r] = "mkdir"]
            /\ UNCHANGED result
    /\ trace' = IF ValidationReadsDisk(req[r]) THEN Log(r, <<Event("fs_check")>>) ELSE trace
    /\ UNCHANGED <<run_tree, detected, upload_call, upload_reply, probed_file, include_contents, file_info, faults, req, clock, dirs, fs, run_dir, files_before, files_after,
                   post_walk, disk_after,
                   proc, outcome, emitted, written, created, budget, upload>>

\* Lines 213-232: run_folder_name from the clock and a random suffix, makedirs.
RunFolderName(timestamp, run_id) == <<timestamp, run_id>>

CreateRunFolder(r) ==
    /\ pc[r] = "mkdir"
    /\ \E timestamp \in {t \in Seconds : t >= clock}, run_id \in RunIdsOf(r), ok \in MkdirOutcomes :
          /\ clock' = timestamp
          /\ IF ok
             THEN /\ run_dir' = [run_dir EXCEPT ![r] = RunFolderName(timestamp, run_id)]
                  /\ dirs' = dirs \cup {RunFolderName(timestamp, run_id)}
                  /\ pc' = [pc EXCEPT ![r] = "snapshot_before"]
                  /\ UNCHANGED result
             ELSE /\ Caught(r, "Failed to create run folder", "EXECUTION_ERROR")
                  /\ UNCHANGED <<run_dir, dirs>>
    /\ trace' = Log(r, <<Event("mkdir")>>)
    /\ UNCHANGED <<run_tree, detected, upload_call, upload_reply, probed_file, include_contents, file_info, faults, req, fs, files_before, files_after,
                   post_walk, disk_after,
                   proc, outcome, emitted, written, created, budget, upload>>

\* Line 241.
RecordFilesBefore(r) ==
    /\ pc[r] = "snapshot_before"
    /\ \E walk \in WalkOutcomes :
          files_before' = [files_before EXCEPT ![r] = get_files_in_directory(run_dir[r], walk)]
    /\ pc' = [pc EXCEPT ![r] = "write_script"]
    /\ trace' = Log(r, <<Event("walk_before")>>)
    /\ UNCHANGED <<run_tree, detected, upload_call, upload_reply, probed_file, include_contents, file_info, faults, req, clock, dirs, fs, run_dir, files_after, post_walk, disk_after,
                   proc, outcome, emitted, written, created, budget, result, upload>>

\* Lines 246-247, and the handlers of lines 418-429 when the write raises.
WriteScriptFile(r) ==
    /\ pc[r] = "write_script"
    /\ \E wrote \in WriteOutcomes :
          IF wrote = "ok"
          THEN /\ fs' = fs \cup {script_path(r)}
               /\ pc' = [pc EXCEPT ![r] = "spawn"]
               /\ UNCHANGED result
          ELSE /\ Caught(r, IF wrote = "io_error" THEN "Failed to write script file"
                                ELSE "Unexpected error",
                          "EXECUTION_ERROR")
               /\ UNCHANGED fs
    /\ trace' = Log(r, <<Event("write_script")>>)
    /\ UNCHANGED <<run_tree, detected, upload_call, upload_reply, probed_file, include_contents, file_info, faults, req, clock, dirs, run_dir, files_before, files_after,
                   post_walk, disk_after,
                   proc, outcome, emitted, written, created, budget, upload>>

FailureOutcomes == {"nonzero", "timeout", "not_found", "spawn_error"}

\* Mutant of Finally: detection and upload only after a run that succeeded.
Finally_OnlyOnSuccess(how) ==
    IF how \in FailureOutcomes THEN "done" ELSE "snapshot_after"

\* Mutant of Finally: the finally block goes straight to the upload.
Finally_StraightToUpload(how) == "upload_start"

\* Line 321: the finally block runs however subprocess.run ended.
Finally(how) == "snapshot_after"

\* Lines 271-279 and 309-320: subprocess.run starts the container runtime, or
\* raises FileNotFoundError or another exception before any process runs.
SpawnFailure(res, spawned) ==
    IF spawned = "not_found"
    THEN Failed(res, "Singularity command not found. Is Singularity installed?", "CONFIGURATION_ERROR")
    ELSE Failed(res, "Error executing Singularity command", "EXECUTION_ERROR")

SpawnSingularity(r) ==
    /\ pc[r] = "spawn"
    /\ \E spawned \in SpawnOutcomes :
          IF spawned = "started"
          THEN /\ proc' = [proc EXCEPT ![r] = "running"]
               /\ pc' = [pc EXCEPT ![r] = "executing"]
               /\ UNCHANGED <<outcome, result>>
          ELSE /\ outcome' = [outcome EXCEPT ![r] = spawned]
               /\ result' = [result EXCEPT ![r] = SpawnFailure(@, spawned)]
               /\ pc' = [pc EXCEPT ![r] = Finally(spawned)]
               /\ UNCHANGED proc
    /\ trace' = Log(r, <<Event("spawn")>>)
    /\ UNCHANGED <<run_tree, detected, upload_call, upload_reply, probed_file, include_contents, file_info, faults, req, clock, dirs, fs, run_dir, files_before, files_after,
                   post_walk, disk_after,
                   emitted, written, created, budget, upload>>

\* The submitted code runs with the whole session directory bound read-write
\* (line 261): it may write into its run folder, into the other folders of the
\* session and into the run folders of other requests.
WritableDirs == ({run_dir[q] : q \in Runs} \cap dirs) \cup {Downloads}

ScriptCreatesFile(r) ==
    /\ proc[r] \in {"running", "orphan"}
    /\ budget > 0
    /\ budget' = budget - 1
    /\ \E d \in WritableDirs, rel \in Rels :
          /\ <<d, rel>> \notin written[r]
          /\ fs' = fs \cup {<<d, rel>>}
          /\ written' = [written EXCEPT ![r] = @ \cup {<<d, rel>>}]
          /\ created' = [created EXCEPT ![r] = @ \cup ({<<d, rel>>} \ fs)]
    /\ UNCHANGED <<run_tree, detected, upload_call, upload_reply, probed_file, include_contents, file_info, faults, req, pc, clock, dirs, run_dir, files_before, files_after,
                   post_walk, disk_after,
                   proc, outcome, emitted, result, upload, trace>>

\* Mutant of Classify: no message is made up when stderr is empty.
Classify_NoSynthesizedMessage(res, returncode, stdout, stderr) ==
    IF returncode = 0
    THEN [res EXCEPT !.success = TRUE, !.output = stdout, !.error = stderr]
    ELSE [res EXCEPT !.success = FALSE, !.output = stdout, !.error = stderr,
                     !.errorType = "EXECUTION_ERROR"]

\* Lines 282-301: subprocess.run returned.
Classify(res, returncode, stdout, stderr) ==
    IF returncode = 0
    THEN [res EXCEPT !.success = TRUE, !.output = stdout, !.error = stderr]
    ELSE [res EXCEPT !.success = FALSE, !.output = stdout,
                     !.error = IF stderr # "" THEN stderr ELSE "Process exited with code 1",
                     !.errorType = "EXECUTION_ERROR"]

\* The process ends by itself.  With text=True its output is decoded, and output
\* that is not valid text raises inside subprocess.run (lines 315-320).
ProcessExits(r) ==
    /\ pc[r] = "executing"
    /\ proc[r] = "running"
    /\ \E decoded \in DecodeOutcomes :
          IF decoded
          THEN \E returncode \in {0, 1}, stdout \in StdoutTexts, stderr \in StderrTexts :
                  /\ emitted' = [emitted EXCEPT ![r] = <<stdout, stderr>>]
                  /\ outcome' = [outcome EXCEPT ![r] =
                                     IF returncode = 0 THEN "exit_zero" ELSE "nonzero"]
                  /\ result' = [result EXCEPT ![r] =
                                    Classify(@, returncode, stdout, stderr)]
          ELSE /\ emitted' = [emitted EXCEPT ![r] = <<"not text", "not text">>]
               /\ outcome' = [outcome EXCEPT ![r] = "spawn_error"]
               /\ result' = [result EXCEPT ![r] = SpawnFailure(@, "spawn_error")]
    /\ proc' = [proc EXCEPT ![r] = "exited"]
    /\ pc' = [pc EXCEPT ![r] = Finally(outcome'[r])]
    /\ UNCHANGED <<run_tree, detected, upload_call, upload_reply, probed_file, include_contents, file_info, faults, req, clock, dirs, fs, run_dir, files_before, files_after,
                   post_walk, disk_after,
                   written, created, budget, upload, trace>>

\* Lines 277 and 303-308: subprocess.run kills the process it started and waits
\* for it.  It signals neither the process group nor the descendants: whether
\* what runs inside the container dies with the runtime is up to the runtime.
KilledProcess(descendants_survive) ==
    IF descendants_survive THEN "orphan" ELSE "killed"

TimeoutExpired(r) ==
    /\ pc[r] = "executing"
    /\ proc[r] = "running"
    /\ \E descendants_survive \in SurvivalOutcomes :
          proc' = [proc EXCEPT ![r] = KilledProcess(descendants_survive)]
    /\ \E stdout \in StdoutTexts :
          emitted' = [emitted EXCEPT ![r] = <<stdout, "">>]
    /\ outcome' = [outcome EXCEPT ![r] = "timeout"]
    /\ result' = [result EXCEPT ![r] = Failed(@, "Execution timed out", "TIMEOUT_ERROR")]
    /\ pc' = [pc EXCEPT ![r] = Finally("timeout")]
    /\ UNCHANGED <<run_tree, detected, upload_call, upload_reply, probed_file, include_contents, file_info, faults, req, clock, dirs, fs, run_dir, files_before, files_after,
                   post_walk, disk_after,
                   written, created, budget, upload, trace>>

\* What outlived the kill ends by itself.
OrphanExits(r) ==
    /\ proc[r] = "orphan"
    /\ proc' = [proc EXCEPT ![r] = "killed"]
    /\ UNCHANGED <<run_tree, detected, upload_call, upload_reply, probed_file, include_contents, file_info, faults, req, pc, clock, dirs, fs, run_dir, files_before, files_after,
                   post_walk, disk_after,
                   outcome, emitted, written, created, budget, result, upload, trace>>

\* Mutant of ExcludeScript: nothing is filtered out.
ExcludeScript_Nothing(new_files, script) == new_files

\* Mutant of ExcludeScript: the comparison is by file name, not by path.
ExcludeScript_ByName(new_files, script) ==
    {f \in new_files : Basename(f[2]) # Basename(script[2])}

\* Lines 326-333: the second snapshot, the difference, the script filtered out.
ExcludeScript(new_files, script) == {f \in new_files : f # script}

OutputFiles(r) ==
    SortedPaths(ExcludeScript(files_after[r] \ files_before[r], script_path(r)))

DetectOutputFiles(r) ==
    /\ pc[r] = "snapshot_after"
    /\ \E walk \in WalkOutcomes :
          /\ files_after' = [files_after EXCEPT ![r] = get_files_in_directory(run_dir[r], walk)]
          /\ post_walk' = [post_walk EXCEPT ![r] = walk]
          /\ disk_after' = [disk_after EXCEPT ![r] = {f \in fs : f[1] = run_dir[r]}]
    /\ pc' = [pc EXCEPT ![r] = "file_info"]
    /\ trace' = Log(r, <<Event("walk_after")>>)
    /\ UNCHANGED <<run_tree, detected, upload_call, upload_reply, probed_file, include_contents, file_info, faults, req, clock, dirs, fs, run_dir, files_before,
                   proc, outcome, emitted, written, created, budget, result, upload>>

\* Lines 336-339 with _get_file_info: one record per output file, in sorted
\* order; a file that cannot be read gives the record {path, error}.
get_file_info(file_path) ==
    [path |-> file_path, readable |-> file_path \in fs]

GetFileInfo(r) ==
    /\ pc[r] = "file_info"
    /\ result' = [result EXCEPT ![r].output_files =
                     [i \in 1..Len(OutputFiles(r)) |-> get_file_info(OutputFiles(r)[i])]]
    /\ pc' = [pc EXCEPT ![r] = "upload_start"]
    /\ trace' = Log(r, <<Event("file_info")>>)
    /\ UNCHANGED <<run_tree, detected, upload_call, upload_reply, probed_file, include_contents, file_info, faults, req, clock, dirs, fs, run_dir, files_before, files_after,
                   post_walk, disk_after,
                   proc, outcome, emitted, written, created, budget, upload>>

\* ------------------------------------------------------------- upload
\* get_user_id_from_token: the first "|" segment without its "un=" prefix.
get_user_id_from_token(token) ==
    IF token = "valid" THEN "user" ELSE ""

\* Mutant of SkipMarker: an empty batch that succeeded.
SkipMarker_EmptySuccess ==
    [kind |-> "batch", total_files |-> 0, successful |-> 0, failed |-> 0,
     success |-> TRUE, files |-> <<>>]

\* Lines 411-416: what workspace_upload is without a token.
SkipMarker ==
    [kind |-> "skipped", success |-> FALSE,
     message |-> "No token provided, skipping workspace upload"]

UploadErrorMarker == [kind |-> "error"]

\* Mutant of FilesToUpload: the script comes after the output files.
FilesToUpload_ScriptLast(r) ==
    [i \in 1..Len(result[r].output_files) |-> result[r].output_files[i].path]
    \o <<script_path(r)>>

\* Lines 369-372: the script, then the output files that have a path.
FilesToUpload(r) ==
    <<script_path(r)>> \o [i \in 1..Len(result[r].output_files) |-> result[r].output_files[i].path]

\* Lines 348-376 and 411-416.
StartUpload(r) ==
    /\ pc[r] = "upload_start"
    /\ IF req[r].token \notin {"valid", "nouser"}
       THEN /\ Finish(r, [result[r] EXCEPT !.workspace_upload = SkipMarker])
            /\ UNCHANGED upload
       ELSE IF get_user_id_from_token(req[r].token) = ""
       THEN /\ Finish(r, [result[r] EXCEPT !.workspace_upload = UploadErrorMarker])
            /\ UNCHANGED upload
       ELSE /\ upload' = [upload EXCEPT ![r] = [files |-> FilesToUpload(r), records |-> <<>>]]
            /\ pc' = [pc EXCEPT ![r] = "uploading"]
            /\ UNCHANGED result
    /\ UNCHANGED <<run_tree, detected, upload_call, upload_reply, probed_file, include_contents, file_info, faults, req, clock, dirs, fs, run_dir, files_before, files_after,
                   post_walk, disk_after,
                   proc, outcome, emitted, written, created, budget, trace>>

\* upload_file_to_workspace, lines 376-441: the calls it issues for file i and
\* the record it returns.
FailedStep(ensured, node, put) ==
    IF ensured = "error" THEN "ensure"
    ELSE IF node \in {"no_url", "error"} THEN "create"
    ELSE IF put = "not_sent" THEN "before_put"
    ELSE IF put # "200" THEN "put"
    ELSE "none"

\* The step, if any, at which the upload of one file may fail, over what the
\* three calls may answer.
FailedSteps ==
    {FailedStep(ensured, node, put) :
        ensured \in EnsureOutcomes, node \in CreateNodeOutcomes, put \in PutOutcomes}

CallsIssued(i, failed) ==
    <<<<"ensure", i>>>>
    \o (IF failed = "ensure" THEN <<>> ELSE <<<<"create", i>>>>)
    \o (IF failed \in {"ensure", "create", "before_put"} THEN <<>> ELSE <<<<"put", i>>>>)

UploadRecord(file_path, failed) ==
    [file |-> Basename(file_path[2]), success |-> failed = "none", error |-> failed]

\* Mutant of BatchFinished: the loop stops at the first file that failed.
BatchFinished_StopsAtFailure(files, records) ==
    \/ Len(records) = Len(files)
    \/ \E i \in 1..Len(records) : ~records[i].success

\* Line 519: the loop ends when every file of the list had its turn.
BatchFinished(files, records) == Len(records) = Len(files)

\* upload_files_to_workspace, lines 519-528: the next file of the batch.
UploadFile(r) ==
    /\ pc[r] = "uploading"
    /\ ~BatchFinished(upload[r].files, upload[r].records)
    /\ \E failed \in FailedSteps :
          LET i == Len(upload[r].records) + 1
          IN /\ upload' = [upload EXCEPT ![r].records =
                              Append(@, UploadRecord(upload[r].files[i], failed))]
             /\ trace' = Log(r, CallsIssued(i, failed))
    /\ UNCHANGED <<run_tree, detected, upload_call, upload_reply, probed_file, include_contents, file_info, faults, req, pc, clock, dirs, fs, run_dir, files_before, files_after,
                   post_walk, disk_after,
                   proc, outcome, emitted, written, created, budget, result>>

\* Lines 512-517, 524-530 and 386-393: the batch result.
CountWhere(records, flag) ==
    Cardinality({i \in 1..Len(records) : records[i].success = flag})

\* Mutant of BatchResult: the batch succeeded when some file did.
BatchResult_SuccessIfAny(files, records) ==
    [kind |-> "batch", total_files |-> Len(files),
     successful |-> CountWhere(records, TRUE), failed |-> CountWhere(records, FALSE),
     success |-> CountWhere(records, TRUE) > 0, files |-> records]

BatchResult(files, records) ==
    [kind |-> "batch", total_files |-> Len(files),
     successful |-> CountWhere(records, TRUE), failed |-> CountWhere(records, FALSE),
     success |-> CountWhere(records, FALSE) = 0, files |-> records]

FinishUpload(r) ==
    /\ pc[r] = "uploading"
    /\ BatchFinished(upload[r].files, upload[r].records)
    /\ Finish(r, [result[r] EXCEPT !.workspace_upload =
                                       BatchResult(upload[r].files, upload[r].records)])
    /\ UNCHANGED <<run_tree, detected, upload_call, upload_reply, probed_file, include_contents, file_info, faults, req, clock, dirs, fs, run_dir, files_before, files_after,
                   post_walk, disk_after,
                   proc, outcome, emitted, written, created, budget, upload, trace>>

\* ------------------------------------------------------- _get_file_info
\* The files a call of _get_file_info may meet: what mimetypes.guess_type
\* makes of the name, the extension, the size in bytes, whether os.stat
\* works and how reading the text goes.
FileNames == {"notes.txt", "plot.png", "data.json", "conf.yaml", "report.pdf", "blob.bin"}

FileSizes == {0, Ceiling - 1, Ceiling, Ceiling + 1, 5 * Ceiling}

StatOutcomes == {"ok", "error"}

ReadOutcomes == {"ok", "unicode_error", "io_error"}

ProbedFiles ==
    [name : FileNames, size : FileSizes, stat : StatOutcomes, read : ReadOutcomes]

\* mimetypes.guess_type (line 66); .yaml and .bin are not in its table.
guess_type(name) ==
    CASE name = "notes.txt" -> "text/plain"
      [] name = "plot.png" -> "image/png"
      [] name = "data.json" -> "application/json"
      [] name = "report.pdf" -> "application/pdf"
      [] OTHER -> "none"

\* mime_type.split('/')[0].
MainType(mime_type) ==
    CASE mime_type = "text/plain" -> "text"
      [] mime_type = "image/png" -> "image"
      [] OTHER -> "application"

\* os.path.splitext(file_path)[1].lower().
Extension(name) ==
    CASE name = "notes.txt" -> ".txt"
      [] name = "plot.png" -> ".png"
      [] name = "data.json" -> ".json"
      [] name = "conf.yaml" -> ".yaml"
      [] name = "report.pdf" -> ".pdf"
      [] OTHER -> ".bin"

\* Lines 66-82: the category of the file.
FileType(name) ==
    IF guess_type(name) # "none" THEN MainType(guess_type(name))
    ELSE IF Extension(name) \in {".png", ".jpg", ".jpeg", ".gif", ".bmp", ".svg", ".webp"} THEN "image"
    ELSE IF Extension(name) \in {".csv", ".txt", ".json", ".xml", ".yaml", ".yml"} THEN "text"
    ELSE IF Extension(name) = ".pdf" THEN "document"
    ELSE "unknown"

\* What f.read() returns: the text of the whole file, here by its length.
FileText(size) == <<"text", size>>

\* The record of lines 100-104.
ErrorRecord(f) ==
    [path |-> f.name, has_error |-> TRUE, has_size |-> FALSE, size |-> 0,
     has_type |-> FALSE, type |-> "", has_content |-> FALSE, content |-> <<>>]

\* Mutant of get_file_info_record: a file of exactly the ceiling is included.
get_file_info_record_UpToCeiling(f, include) ==
    IF f.stat # "ok" THEN ErrorRecord(f)
    ELSE LET with_content == /\ include
                             /\ FileType(f.name) = "text"
                             /\ f.size <= Ceiling
                             /\ f.read = "ok"
         IN [path |-> f.name, has_error |-> FALSE, has_size |-> TRUE, size |-> f.size,
             has_type |-> TRUE, type |-> FileType(f.name),
             has_content |-> with_content,
             content |-> IF with_content THEN FileText(f.size) ELSE <<>>]

\* _get_file_info, lines 44-104.
get_file_info_record(f, include) ==
    IF f.stat # "ok" THEN ErrorRecord(f)
    ELSE LET with_content == /\ include
                             /\ FileType(f.name) = "text"
                             /\ f.size < Ceiling
                             /\ f.read = "ok"
         IN [path |-> f.name, has_error |-> FALSE, has_size |-> TRUE, size |-> f.size,
             has_type |-> TRUE, type |-> FileType(f.name),
             has_content |-> with_content,
             content |-> IF with_content THEN FileText(f.size) ELSE <<>>]

\* One call of _get_file_info.
GetOneFileInfo ==
    /\ file_info = NoInfo
    /\ file_info' = get_file_info_record(probed_file, include_contents)
    /\ UNCHANGED <<run_tree, detected, upload_call, upload_reply, probed_file, include_contents, faults, req, pc, clock, dirs, fs, run_dir,
                   files_before, files_after, post_walk, disk_after, proc, outcome,
                   emitted, written, created, budget, result, upload, trace>>

\* ------------------------------------------- upload_file_to_workspace
\* api.service_url, the workspace URL without its trailing "/".
ServiceUrl == <<"https://", "service", "ws">>

\* The characters of the response body that the error message quotes.
BodyLimit == 200

\* What Workspace.create of the folder answers: its result, or the text of
\* the exception JsonRpcCaller.call raises (JSON-RPC error, HTTP error,
\* transport error), word by word.
EnsureAnswers ==
    {[raised |-> FALSE, text |-> <<>>]} \cup
    {[raised |-> TRUE, text |-> t] :
        t \in {<<"path", "already", "exists">>,
               <<"parent", "no", "longer", "exists">>,
               <<"json-rpc", "error">>,
               <<"500", "server", "error">>,
               <<"connection", "refused">>}}

\* The upload URLs a Workspace.create response may carry.
UploadUrls ==
    {<<"https://", "shock", "node/1">>, <<"http://", "shock", "node/1">>,
     <<"ftp://", "shock", "node/1">>, <<"/", "node/1">>, <<"node/1">>,
     <<" ">>, NoUrl}

\* What Workspace.create of the file answers: metadata as a positional
\* array (the URL at index 11) or as a keyed object, with or without a URL;
\* a result holding no metadata; or an exception.
CreateAnswers ==
    {[shape |-> sh, has_url |-> TRUE, url |-> u] :
        sh \in {"array", "object"}, u \in UploadUrls} \cup
    {[shape |-> sh, has_url |-> FALSE, url |-> NoUrl] :
        sh \in {"array", "object", "no_metadata", "raises"}}

\* What requests.put answers: a response, or an exception.
PutAnswers ==
    {[raised |-> FALSE, status_code |-> st, body |-> b, exception |-> ""] :
        st \in {200, 201, 204, 500}, b \in {0, BodyLimit, BodyLimit + 1}} \cup
    {[raised |-> TRUE, status_code |-> 0, body |-> 0, exception |-> "connection reset"]}

\* The local file when the PUT is prepared.
FileStates == {"present", "missing", "unreadable"}

UploadCalls ==
    [ensure : EnsureAnswers, create : CreateAnswers, file : FileStates, put : PutAnswers]

\* phrase in text
Contains(text, phrase) ==
    \E i \in 1..(Len(text) - Len(phrase) + 1) :
        SubSeq(text, i, i + Len(phrase) - 1) = phrase

\* upload_url.startswith(prefixes)
StartsWith(url, prefixes) == Len(url) > 0 /\ url[1] \in prefixes

\* upload_url.strip()
Strip(url) == IF url = <<" ">> THEN NoUrl ELSE url

\* urljoin(f"{api.service_url}/", upload_url.lstrip("/"))
Resolve(url) == ServiceUrl \o Tail(url)

Message(text) == [NoMessage EXCEPT !.text = text]

ensure_workspace_directory_exists(answer) ==
    IF \/ ~answer.raised
       \/ Contains(answer.text, <<"already", "exists">>)
       \/ Contains(answer.text, <<"exists">>)
    THEN [success |-> TRUE, error |-> NoMessage]
    ELSE [success |-> FALSE,
          error |-> Message("Failed to ensure workspace directory")]

\* The URL found in the metadata, "" (NoUrl) when none is.
extract_upload_url(answer) ==
    IF ~answer.has_url THEN NoUrl
    ELSE IF answer.shape = "object"
         THEN IF Strip(answer.url) # NoUrl THEN answer.url ELSE NoUrl
         ELSE IF StartsWith(answer.url, {"http://", "https://"})
              THEN answer.url ELSE NoUrl

workspace_create_upload_node(answer) ==
    LET upload_url == Strip(extract_upload_url(answer))
        resolved   == IF StartsWith(upload_url, {"/"})
                      THEN Resolve(upload_url) ELSE upload_url
    IN  IF answer.shape = "raises"
        THEN [success |-> FALSE, error |-> Message("exception"), upload_url |-> NoUrl]
        ELSE IF answer.shape = "no_metadata"
        THEN [success |-> FALSE,
              error |-> Message("Workspace.create did not return metadata"),
              upload_url |-> NoUrl]
        ELSE IF resolved = NoUrl
        THEN [success |-> FALSE,
              error |-> Message("Workspace.create did not return a valid upload URL"),
              upload_url |-> NoUrl]
        ELSE [success |-> TRUE, error |-> NoMessage, upload_url |-> resolved]

PutCall(upload_url) == [kind |-> "put", to |-> upload_url]

upload_file_to_workspace_url_AnyUrl(file, upload_url, answer) ==
    IF file = "missing"
    THEN [success |-> FALSE, error |-> Message("File does not exist"), calls |-> <<>>]
    ELSE IF upload_url = NoUrl
    THEN [success |-> FALSE,
          error |-> Message("Upload URL is missing or not a string"), calls |-> <<>>]
    ELSE IF file = "unreadable"
    THEN [success |-> FALSE,
          error |-> [Message("Upload failed") EXCEPT !.exception = "permission denied"],
          calls |-> <<>>]
    ELSE IF answer.raised
    THEN [success |-> FALSE,
          error |-> [Message("Upload failed") EXCEPT !.exception = answer.exception],
          calls |-> <<PutCall(upload_url)>>]
    ELSE IF answer.status_code = 200
    THEN [success |-> TRUE, error |-> NoMessage, calls |-> <<PutCall(upload_url)>>]
    ELSE [success |-> FALSE,
          error |-> [text |-> "Upload failed with status code",
                     has_status |-> TRUE, status_code |-> answer.status_code,
                     body |-> IF answer.body > BodyLimit THEN BodyLimit
                                                          ELSE answer.body,
                     url |-> NoUrl, exception |-> ""],
          calls |-> <<PutCall(upload_url)>>]

upload_file_to_workspace_url_Any2xx(file, upload_url, answer) ==
    IF file = "missing"
    THEN [success |-> FALSE, error |-> Message("File does not exist"), calls |-> <<>>]
    ELSE IF upload_url = NoUrl
    THEN [success |-> FALSE,
          error |-> Message("Upload URL is missing or not a string"), calls |-> <<>>]
    ELSE IF ~StartsWith(upload_url, {"http://", "https://"})
    THEN [success |-> FALSE,
          error |-> [Message("Upload URL is invalid (must start with http/https)")
                        EXCEPT !.url = upload_url],
          calls |-> <<>>]
    ELSE IF file = "unreadable"
    THEN [success |-> FALSE,
          error |-> [Message("Upload failed") EXCEPT !.exception = "permission denied"],
          calls |-> <<>>]
    ELSE IF answer.raised
    THEN [success |-> FALSE,
          error |-> [Message("Upload failed") EXCEPT !.exception = answer.exception],
          calls |-> <<PutCall(upload_url)>>]
    ELSE IF answer.status_code >= 200 /\ answer.status_code < 300
    THEN [success |-> TRUE, error |-> NoMessage, calls |-> <<PutCall(upload_url)>>]
    ELSE [success |-> FALSE,
          error |-> [text |-> "Upload failed with status code",
                     has_status |-> TRUE, status_code |-> answer.status_code,
                     body |-> IF answer.body > BodyLimit THEN BodyLimit
                                                          ELSE answer.body,
                     url |-> NoUrl, exception |-> ""],
          calls |-> <<PutCall(upload_url)>>]

\* The outcome of the PUT step and the request it sent, if it sent one.
upload_file_to_workspace_url(file, upload_url, answer) ==
    IF file = "missing"
    THEN [success |-> FALSE, error |-> Message("File does not exist"), calls |-> <<>>]
    ELSE IF upload_url = NoUrl
    THEN [success |-> FALSE,
          error |-> Message("Upload URL is missing or not a string"), calls |-> <<>>]
    ELSE IF ~StartsWith(upload_url, {"http://", "https://"})
    THEN [success |-> FALSE,
          error |-> [Message("Upload URL is invalid (must start with http/https)")
                        EXCEPT !.url = upload_url],
          calls |-> <<>>]
    ELSE IF file = "unreadable"
    THEN [success |-> FALSE,
          error |-> [Message("Upload failed") EXCEPT !.exception = "permission denied"],
          calls |-> <<>>]
    ELSE IF answer.raised
    THEN [success |-> FALSE,
          error |-> [Message("Upload failed") EXCEPT !.exception = answer.exception],
          calls |-> <<PutCall(upload_url)>>]
    ELSE IF answer.status_code = 200
    THEN [success |-> TRUE, error |-> NoMessage, calls |-> <<PutCall(upload_url)>>]
    ELSE [success |-> FALSE,
          error |-> [text |-> "Upload failed with status code",
                     has_status |-> TRUE, status_code |-> answer.status_code,
                     body |-> IF answer.body > BodyLimit THEN BodyLimit
                                                          ELSE answer.body,
                     url |-> NoUrl, exception |-> ""],
          calls |-> <<PutCall(upload_url)>>]

RpcCall(kind) == [kind |-> kind, to |-> ServiceUrl]

upload_file_to_workspace_KeepsGoing(call) ==
    LET create_result == workspace_create_upload_node(call.create)
        upload_result == upload_file_to_workspace_url(
                             call.file, create_result.upload_url, call.put)
    IN  [success |-> upload_result.success,
         error   |-> upload_result.error,
         calls   |-> <<RpcCall("ensure"), RpcCall("create")>> \o upload_result.calls]

\* The record of one file and the remote calls made for it, in order.
upload_file_to_workspace(call) ==
    LET ensure_result == ensure_workspace_directory_exists(call.ensure)
        create_result == workspace_create_upload_node(call.create)
        upload_result == upload_file_to_workspace_url(
                             call.file, create_result.upload_url, call.put)
    IN  IF ~ensure_result.success
        THEN [success |-> FALSE, error |-> ensure_result.error,
              calls |-> <<RpcCall("ensure")>>]
        ELSE IF ~create_result.success
        THEN [success |-> FALSE, error |-> create_result.error,
              calls |-> <<RpcCall("ensure"), RpcCall("create")>>]
        ELSE [success |-> upload_result.success,
              error   |-> upload_result.error,
              calls   |-> <<RpcCall("ensure"), RpcCall("create")>>
                              \o upload_result.calls]

\* One call of upload_file_to_workspace.
UploadOneFile ==
    /\ upload_reply = NoReply
    /\ upload_reply' = upload_file_to_workspace(upload_call)
    /\ UNCHANGED <<run_tree, detected, upload_call, probed_file, include_contents, file_info, faults, req, pc,
                   clock, dirs, fs, run_dir, files_before, files_after, post_walk,
                   disk_after, proc, outcome, emitted, written, created, budget,
                   result, upload, trace>>

\* ------------------------------------- detection, entry by entry
\* A path is the sequence of its components.
RunFolderPath == <<"session", "run">>

EntryPath(name) == RunFolderPath \o <<name>>

\* os.path.normpath: "." components dropped, "x/.." pairs collapsed; what a
\* path names on disk plays no part in it.
RECURSIVE normpath(_)
normpath(path) ==
    IF path = <<>> THEN <<>>
    ELSE LET rest == normpath(Tail(path))
         IN  IF Head(path) = "." THEN rest
             ELSE IF rest # <<>> /\ Head(rest) = ".." /\ Head(path) # ".."
                  THEN Tail(rest)
                  ELSE <<Head(path)>> \o rest

\* os.path.realpath, which the code does not call: the path with a symbolic
\* link replaced by what it points to.
realpath(path) ==
    LET name == path[Len(path)]
    IN  IF run_tree[name].kind = "link"
        THEN EntryPath(run_tree[name].target)
        ELSE normpath(path)

\* _get_files_in_directory on the run folder: os.walk lists a symbolic link
\* to a file among the file names, and each joined path goes through
\* os.path.normpath.
get_files_in_tree(tree) ==
    {normpath(EntryPath(n)) : n \in {m \in EntryNames : tree[m].kind # "absent"}}

\* The submitted code creates a file in its run folder.
ScriptMakesFile ==
    /\ ~detected.done
    /\ \E n \in EntryNames :
          /\ run_tree[n].kind = "absent"
          /\ run_tree' = [run_tree EXCEPT ![n] = RegularFile]
    /\ UNCHANGED <<detected, upload_call, upload_reply, probed_file, include_contents,
                   file_info, faults, req, pc, clock, dirs, fs, run_dir, files_before,
                   files_after, post_walk, disk_after, proc, outcome, emitted, written,
                   created, budget, result, upload, trace>>

\* The submitted code creates a symbolic link to a file of its run folder.
ScriptMakesLink ==
    /\ ~detected.done
    /\ \E n \in EntryNames, t \in EntryNames :
          /\ run_tree[n].kind = "absent"
          /\ run_tree[t].kind = "file"
          /\ run_tree' = [run_tree EXCEPT ![n] = [kind |-> "link", target |-> t]]
    /\ UNCHANGED <<detected, upload_call, upload_reply, probed_file, include_contents,
                   file_info, faults, req, pc, clock, dirs, fs, run_dir, files_before,
                   files_after, post_walk, disk_after, proc, outcome, emitted, written,
                   created, budget, result, upload, trace>>

\* Lines 326-332 on a run folder that was empty at the first snapshot.
DetectInTree ==
    /\ ~detected.done
    /\ LET new_files == get_files_in_tree(run_tree) \ {}
           script_path_normalized == normpath(EntryPath("script.py"))
       IN  detected' = [done  |-> TRUE,
                        paths |-> {f \in new_files :
                                      normpath(f) # script_path_normalized}]
    /\ UNCHANGED <<run_tree, upload_call, upload_reply, probed_file, include_contents,
                   file_info, faults, req, pc, clock, dirs, fs, run_dir, files_before,
                   files_after, post_walk, disk_after, proc, outcome, emitted, written,
                   created, budget, result, upload, trace>>

\* ------------------------------------------------------ specifications
Step(r) ==
    \/ run_python_code(r)
    \/ ValidateRequest(r)
    \/ CreateRunFolder(r)
    \/ RecordFilesBefore(r)
    \/ WriteScriptFile(r)
    \/ SpawnSingularity(r)
    \/ ScriptCreatesFile(r)
    \/ ProcessExits(r)
    \/ TimeoutExpired(r)
    \/ OrphanExits(r)
    \/ DetectOutputFiles(r)
    \/ GetFileInfo(r)
    \/ StartUpload(r)
    \/ UploadFile(r)
    \/ FinishUpload(r)

Next == \E r \in Runs : Step(r)

\* What two direct calls in a working environment can do.
StepConcurrent(r) ==
    \/ ValidateRequest(r)
    \/ CreateRunFolder(r)
    \/ RecordFilesBefore(r)
    \/ WriteScriptFile(r)
    \/ SpawnSingularity(r)
    \/ ScriptCreatesFile(r)
    \/ ProcessExits(r)
    \/ TimeoutExpired(r)
    \/ DetectOutputFiles(r)
    \/ GetFileInfo(r)
    \/ StartUpload(r)
    \/ UploadFile(r)
    \/ FinishUpload(r)

NextConcurrent == \E r \in Runs : StepConcurrent(r)

\* One request.
Spec == Init /\ [][Next]_vars

\* One request whose thread keeps running: every call it blocks on returns
\* (the subprocess within the timeout, each remote call within its own).
\* Whether the request returns does not depend on how many files its code
\* writes: one write is enough to pass through every step.
InitFair == InitRun({1}) /\ InfoIdle /\ UploadIdle /\ TreeIdle /\ faults /\ budget = MaxSharedWrites /\ clock = 1

FairSpec == InitFair /\ [][Next]_vars /\ WF_vars(Next)

\* One request of a valid session, in a fresh session directory, with a token
\* that yields a user id: the requests that get as far as the batch.
InitUpload ==
    /\ InitFair
    /\ dirs = {}
    /\ req[1].session_id = "s1"
    /\ req[1].env = "ok"
    /\ req[1].token = "valid"

FairSpecUpload == InitUpload /\ [][Next]_vars /\ WF_vars(Next)

\* Calls of _get_file_info on their own, for every file and both values of
\* include_file_contents.
InitFileInfo ==
    /\ InitRun({})
    /\ faults /\ budget = MaxWrites /\ clock = 1 /\ dirs = {}
    /\ probed_file \in ProbedFiles
    /\ include_contents \in BOOLEAN
    /\ file_info = NoInfo
    /\ UploadIdle /\ TreeIdle

NextFileInfo == GetOneFileInfo

SpecFileInfo == InitFileInfo /\ [][NextFileInfo]_vars

\* Calls of upload_file_to_workspace on their own, for every answer of the
\* workspace, of the disk and of the store.
InitUploadFile ==
    /\ InitRun({})
    /\ faults /\ budget = MaxWrites /\ clock = 1 /\ dirs = {}
    /\ InfoIdle
    /\ upload_call \in UploadCalls
    /\ upload_reply = NoReply
    /\ TreeIdle

NextUploadFile == UploadOneFile

SpecUploadFile == InitUploadFile /\ [][NextUploadFile]_vars

\* One run folder, the files and symbolic links the submitted code leaves in
\* it, and the detection of output files.
InitTree ==
    /\ InitRun({})
    /\ faults /\ budget = MaxWrites /\ clock = 1 /\ dirs = {}
    /\ InfoIdle /\ UploadIdle /\ TreeIdle

NextTree == ScriptMakesFile \/ ScriptMakesLink \/ DetectInTree

SpecTree == InitTree /\ [][NextTree]_vars

\* Two requests of one valid session that arrive within the same second,
\* interleaved.
ConcurrentRequest ==
    [session_id |-> "s1", code |-> "valid", token |-> "valid", env |-> "ok", entry |-> "direct"]

InitConcurrent ==
    /\ InitRun(Runs)
    /\ InfoIdle /\ UploadIdle /\ TreeIdle
    /\ ~faults
    /\ budget = MaxSharedWrites
    /\ dirs = {}
    /\ \A t \in Seconds : t <= clock
    /\ \A r \in Runs : req[r] = ConcurrentRequest

SpecConcurrent == InitConcurrent /\ [][NextConcurrent]_vars

\* -------------------------------------------------------------- claims
Started(r) == pc[r] # "idle"

Done(r) == pc[r] = "done"

Performed(r, kind) == \E i \in 1..Len(trace[r]) : trace[r][i][1] = kind

RemoteCalls == {"ensure", "create", "put"}

\* C1: every call ends: it reaches Done with a result, whatever the session,
\* the configuration, the script write, the subprocess, the snapshots and the
\* uploads do, and no exception leaves the orchestrator.
C1_AlwaysReturnsResult ==
    /\ [](\A r \in Runs : pc[r] # "raised")
    /\ <>(Done(1))

\* C1 witness: a call that returned after the subprocess could not be run, the
\* second snapshot found nothing and an upload failed.
C1_Witness ==
    /\ Done(1)
    /\ outcome[1] = "spawn_error"
    /\ files_after[1] = {}
    /\ result[1].workspace_upload.kind = "batch"
    /\ result[1].workspace_upload.failed > 0

\* C2: a returned result with success = false has errorType set and a
\* non-empty error; success = true only after exit code 0, without errorType.
C2_ResultClassified ==
    \A r \in Runs :
        Done(r) =>
            /\ ~result[r].success =>
                   result[r].errorType # "unset" /\ result[r].error # ""
            /\ result[r].success =>
                   outcome[r] = "exit_zero" /\ result[r].errorType = "unset"

\* C2 witness: both cases, a nonzero exit with empty stderr among them.
C2_Witness ==
    /\ Done(1)
    /\ outcome[1] = "nonzero"
    /\ result[1].error = "Process exited with code 1"
    /\ ~result[1].success

\* The place of the first event of a kind in the run's trace (0: none).
First(r, kind) ==
    IF Performed(r, kind)
    THEN CHOOSE i \in 1..Len(trace[r]) :
             trace[r][i][1] = kind /\ \A j \in 1..(i - 1) : trace[r][j][1] # kind
    ELSE 0

\* Every file of the run's batch had its upload started, after the metadata.
BatchUploaded(r) ==
    /\ result[r].workspace_upload.kind = "batch"
    /\ Len(upload[r].files) > 0
    /\ \A i \in 1..Len(upload[r].files) :
           \E k \in 1..Len(trace[r]) : trace[r][k] = <<"ensure", i>> /\ k > First(r, "file_info")

DetectedInOrder(r) ==
    /\ Performed(r, "walk_after")
    /\ Performed(r, "file_info")
    /\ First(r, "spawn") < First(r, "walk_after")
    /\ First(r, "walk_after") < First(r, "file_info")

\* C3 as stated: after any failure of the subprocess the run still takes the
\* second snapshot, extracts the metadata and, if a credential is present,
\* uploads the batch, in that order, before it returns.
C3_Original ==
    \A r \in Runs :
        (Done(r) /\ outcome[r] \in FailureOutcomes) =>
            /\ DetectedInOrder(r)
            /\ req[r].token \in {"valid", "nouser"} => BatchUploaded(r)

\* C3 amended: the same, the batch being uploaded if the credential yields a
\* user id; with a credential that yields none the upload stage ends with an
\* error marker and no remote call.
C3_FailureStillDetectsAndUploads ==
    \A r \in Runs :
        (Done(r) /\ outcome[r] \in FailureOutcomes) =>
            /\ DetectedInOrder(r)
            /\ get_user_id_from_token(req[r].token) # "" => BatchUploaded(r)
            /\ req[r].token = "nouser" =>
                   /\ result[r].workspace_upload = UploadErrorMarker
                   /\ \A k \in RemoteCalls : ~Performed(r, k)

\* C3 witness: a timed-out run that reported a file and uploaded two.
C3_Witness ==
    /\ Done(1)
    /\ outcome[1] = "timeout"
    /\ Len(result[1].output_files) = 1
    /\ BatchUploaded(1)
    /\ result[1].workspace_upload.total_files = 2

SetupErrors ==
    {"session_id is required but was not provided",
     "singularity_container not specified in config",
     "Singularity container not found",
     "Session directory does not exist",
     "Session directory path exists but is not a directory",
     "Session directory is not writable",
     "Failed to create run folder",
     "Failed to write script file",
     "Unexpected error"}

\* C4: when the session validation, the creation of the run folder or the
\* script write fails, the run ends with an error and no subprocess, no second
\* snapshot, no remote call, and an empty output_files.
C4_SetupFailureShortCircuits ==
    \A r \in Runs :
        (pc[r] \in {"done", "snapshot_after", "file_info", "upload_start", "uploading"}
         /\ result[r].error \in SetupErrors) =>
            /\ Done(r)
            /\ ~result[r].success
            /\ result[r].errorType # "unset"
            /\ proc[r] = "none"
            /\ ~Performed(r, "spawn")
            /\ ~Performed(r, "walk_after")
            /\ \A k \in RemoteCalls : ~Performed(r, k)
            /\ result[r].output_files = <<>>

\* C4 witness: the script write failed in a folder that held files.
C4_Witness ==
    /\ Done(1)
    /\ result[1].error = "Failed to write script file"
    /\ run_dir[1] = OldRunFolder
    /\ req[1].token = "valid"

\* The paths of the records of output_files.
OutputPaths(r) ==
    {result[r].output_files[i].path : i \in 1..Len(result[r].output_files)}

\* The post-execution walk of the run folder got as far as the file.
Reached(r, f) ==
    \/ post_walk[r] = "ok"
    \/ post_walk[r] = "skip_sub" /\ ~InSubdirectory(f[2])

\* C5 as stated: after a timeout the result is success = false with
\* TIMEOUT_ERROR, nothing started for the run is still running once the
\* post-execution snapshot is taken, and every file then in the run folder,
\* the script excepted, is reported in output_files.
C5_TimeoutLeavesNothingRunning ==
    \A r \in Runs :
        outcome[r] = "timeout" =>
            /\ ~result[r].success
            /\ result[r].errorType = "TIMEOUT_ERROR"
            /\ Performed(r, "walk_after") => proc[r] \notin {"running", "orphan"}
            /\ Done(r) =>
                   \A f \in disk_after[r] \ {script_path(r)} : f \in OutputPaths(r)

C7_DistinctRunDirectories ==
    (run_dir[1] # NoDir /\ run_dir[2] # NoDir) => run_dir[1] # run_dir[2]

\* C8 as stated: no file created by the script of one run is ever in the
\* output_files or in the upload batch of the other, wherever under the
\* session directory it was created.
C8_NoCrossRunFiles ==
    \A a \in Runs, b \in Runs :
        a # b =>
            \A f \in created[a] :
                f \notin OutputPaths(b) /\ f \notin Range(upload[b].files)

\* C9: the script path is never in output_files, nor in the list they are
\* made from, whether the first snapshot held it or not, whether the script
\* rewrote it or not, and whatever the subprocess did.
C9_ScriptNeverInOutputFiles ==
    \A r \in Runs :
        run_dir[r] # NoDir =>
            /\ script_path(r) \notin OutputPaths(r)
            /\ Performed(r, "walk_after") => script_path(r) \notin Range(OutputFiles(r))

\* C9 witness: the script is new since the first snapshot, the submitted code
\* rewrote it, and the run reported another file.
C9_Witness ==
    /\ Done(1)
    /\ script_path(1) \in written[1]
    /\ script_path(1) \in files_after[1] \ files_before[1]
    /\ Len(result[1].output_files) = 1

\* C10 as stated: every file the script created under the session directory
\* is in output_files, outside its run folder included, and no file that
\* existed before the run is.
C10_Original ==
    \A r \in Runs :
        (Done(r) /\ Performed(r, "walk_after")) =>
            /\ \A f \in created[r] : f \in OutputPaths(r)
            /\ \A f \in OutputPaths(r) : f \in created[r]

\* C10 amended: every file the script created in its own run folder before
\* the post-execution snapshot and that the walk of that snapshot got to is in
\* output_files; a reported file is in the run folder, is not the script and
\* was not in the pre-execution snapshot, so what the script wrote elsewhere
\* under the session directory is never reported.
C10_RunFolderFilesReported ==
    \A r \in Runs :
        (Done(r) /\ Performed(r, "walk_after")) =>
            /\ \A f \in created[r] \cap disk_after[r] :
                   (f \notin files_before[r] /\ Reached(r, f)) => f \in OutputPaths(r)
            /\ \A f \in OutputPaths(r) :
                   /\ f[1] = run_dir[r]
                   /\ f # script_path(r)
                   /\ f \notin files_before[r]

\* C10 witness: the script created a file in a subfolder of its run folder,
\* which is reported, and one in the downloads folder, which is not.
C10_Witness ==
    /\ Done(1)
    /\ post_walk[1] = "ok"
    /\ <<run_dir[1], "sub/script.py">> \in created[1]
    /\ <<Downloads, "out.csv">> \in created[1]
    /\ OutputPaths(1) = {<<run_dir[1], "sub/script.py">>}

\* The stage an event of the trace belongs to.
StageOf(kind) == IF kind \in RemoteCalls THEN "upload" ELSE kind

\* The place of each step in the order the claim gives, and in the order of
\* the code (0: the configuration checks).
OrderAsStated ==
    [fs_check |-> 0, mkdir |-> 1, write_script |-> 2, walk_before |-> 3, spawn |-> 4,
     walk_after |-> 5, file_info |-> 6, upload |-> 7]

OrderInCode ==
    [fs_check |-> 0, mkdir |-> 1, walk_before |-> 2, write_script |-> 3, spawn |-> 4,
     walk_after |-> 5, file_info |-> 6, upload |-> 7]

Place(order, kind) == order[StageOf(kind)]

\* What the run did so far follows the order: it began at the beginning, each
\* step is the one after the step before it (or another remote call of the
\* upload), and a run that started the subprocess returns only after
\* detection and metadata.
FollowsOrder(r, order) ==
    /\ trace[r] # <<>> => Place(order, trace[r][1][1]) = 0
    /\ \A i \in 1..(Len(trace[r]) - 1) :
           \/ Place(order, trace[r][i + 1][1]) = Place(order, trace[r][i][1]) + 1
           \/ StageOf(trace[r][i][1]) = "upload" /\ StageOf(trace[r][i + 1][1]) = "upload"
    /\ (Done(r) /\ Performed(r, "spawn")) =>
           Performed(r, "walk_after") /\ Performed(r, "file_info")

C12_ConfigurationErrorAborts ==
    \A r \in Runs :
        result[r].errorType = "CONFIGURATION_ERROR" =>
            /\ ~Performed(r, "walk_after")
            /\ ~Performed(r, "file_info")
            /\ \A k \in RemoteCalls : ~Performed(r, k)
            /\ result[r].output = ""
            /\ result[r].output_files = <<>>
            /\ result[r].workspace_upload.kind # "batch"

\* C13: a request without a session id ends with MISSING_PARAMETER and has
\* done no I/O at any point: no filesystem check, no run folder, no script
\* write, no subprocess, no remote call, whatever the configuration is.
C13_MissingSessionBeforeAnyIO ==
    \A r \in Runs :
        req[r].session_id = "" =>
            /\ trace[r] = <<>>
            /\ run_dir[r] = NoDir
            /\ proc[r] = "none"
            /\ written[r] = {}
            /\ pc[r] \in {"tool", "validate", "done"}
            /\ Done(r) =>
                   /\ ~result[r].success
                   /\ result[r].errorType = "MISSING_PARAMETER"

\* C13 witness: no session id and no container configured either, through
\* execute_python_code itself.
C13_Witness ==
    /\ Done(1)
    /\ req[1].session_id = ""
    /\ req[1].env = "no_container"
    /\ req[1].entry = "direct"
    /\ result[1].errorType = "MISSING_PARAMETER"

\* C14: without a credential no remote call is ever issued and no batch is
\* built, and a run that reached the upload stage, however its subprocess
\* ended, returns the skip marker with its reason as workspace_upload.
C14_NoCredentialSkipsUpload ==
    \A r \in Runs :
        req[r].token = "none" =>
            /\ \A k \in RemoteCalls : ~Performed(r, k)
            /\ upload[r] = NoUpload
            /\ (Done(r) /\ Performed(r, "file_info")) =>
                   /\ result[r].workspace_upload.kind = "skipped"
                   /\ ~result[r].workspace_upload.success
                   /\ result[r].workspace_upload.message # ""

\* C14 witness: a run without credential that timed out and reported a file.
C14_Witness ==
    /\ Done(1)
    /\ req[1].token = "none"
    /\ outcome[1] = "timeout"
    /\ Len(result[1].output_files) = 1
    /\ result[1].workspace_upload = SkipMarker

\* The fields of a result that give the verdict of the execution.
Verdict(res) ==
    <<res.success, res.output, res.error, res.errorType, res.output_files>>

\* The verdict as the subprocess and the two snapshots alone determine it: no
\* credential and no remote call is part of it.
ExecutionVerdict(r) ==
    LET how == outcome[r]
        stdout == emitted[r][1]
        stderr == emitted[r][2]
    IN <<how = "exit_zero",
         IF how \in {"exit_zero", "nonzero"} THEN stdout ELSE "",
         CASE how = "exit_zero" -> stderr
           [] how = "nonzero" -> IF stderr # "" THEN stderr ELSE "Process exited with code 1"
           [] how = "timeout" -> "Execution timed out"
           [] how = "not_found" -> "Singularity command not found. Is Singularity installed?"
           [] OTHER -> "Error executing Singularity command",
         CASE how = "exit_zero" -> "unset"
           [] how = "timeout" -> "TIMEOUT_ERROR"
           [] how = "not_found" -> "CONFIGURATION_ERROR"
           [] OTHER -> "EXECUTION_ERROR",
         [i \in 1..Len(OutputFiles(r)) |-> get_file_info(OutputFiles(r)[i])]>>

\* C15: the upload never influences the verdict: success, output, error,
\* errorType and output_files of a returned result are what the execution
\* alone determines, whether a credential is there or not and whatever the
\* remote calls answer, and no step of the upload stage changes them.
C15_UploadNeverInfluencesVerdict ==
    /\ [](\A r \in Runs :
             (Done(r) /\ Performed(r, "file_info")) =>
                 Verdict(result[r]) = ExecutionVerdict(r))
    /\ [][\A r \in Runs :
             pc[r] \in {"upload_start", "uploading"} =>
                 Verdict(result'[r]) = Verdict(result[r])]_vars

\* C15 witness: a successful execution with a reported file whose batch has a
\* failed upload.
C15_Witness ==
    /\ Done(1)
    /\ result[1].success
    /\ Len(result[1].output_files) = 1
    /\ result[1].workspace_upload.kind = "batch"
    /\ ~result[1].workspace_upload.success

\* C16 as stated: every returned result has a workspace_upload that is a
\* batch result or the skip marker, never null and never missing, the results
\* of setup failures included.
C16_WorkspaceUploadNeverNull ==
    \A r \in Runs :
        Done(r) =>
            /\ result[r].has_workspace_upload
            /\ result[r].workspace_upload.kind \in {"batch", "skipped"}

\* C17: in every returned batch total_files is the number of input files,
\* which is one more than the number of output_files records; successful and
\* failed count the records by their success and add up to total_files; there
\* is one record per input file; success holds exactly when failed = 0.
C17_BatchCounts ==
    \A r \in Runs :
        (Done(r) /\ result[r].workspace_upload.kind = "batch") =>
            LET batch == result[r].workspace_upload IN
            /\ batch.total_files = Len(upload[r].files)
            /\ batch.total_files = 1 + Len(result[r].output_files)
            /\ batch.successful + batch.failed = batch.total_files
            /\ Len(batch.files) = batch.total_files
            /\ batch.successful = Cardinality({i \in 1..Len(batch.files) : batch.files[i].success})
            /\ batch.success <=> (batch.failed = 0)

\* C17 witness: three files, of which exactly one failed.
C17_Witness ==
    /\ Done(1)
    /\ result[1].workspace_upload.kind = "batch"
    /\ result[1].workspace_upload.total_files = 3
    /\ result[1].workspace_upload.successful = 2
    /\ result[1].workspace_upload.failed = 1
    /\ ~result[1].workspace_upload.success

\* The calls issued for file i of the batch of run r, in order.
CallsFor(r, i) ==
    SelectSeq(trace[r], LAMBDA e : e[1] \in RemoteCalls /\ e[2] = i)

\* File i had its turn: its ensure-directory call was issued, and its record
\* is the one its own calls give.
Attempted(r, i) ==
    /\ i <= Len(upload[r].records)
    /\ CallsFor(r, i) = CallsIssued(i, upload[r].records[i].error)
    /\ upload[r].records[i] = UploadRecord(upload[r].files[i], upload[r].records[i].error)

\* C18: a file that fails, at whatever step, does not keep a later file from
\* being attempted: once the batch is started every file of the list gets its
\* ensure-directory call and the call returns the batch; each record is the
\* one the file's own calls give, and later files never change it.
C18_FailuresIsolatedPerFile ==
    /\ [](\A i \in 1..Len(upload[1].records) : Attempted(1, i))
    /\ (pc[1] = "uploading") ~>
           (/\ Done(1)
            /\ result[1].workspace_upload.kind = "batch"
            /\ result[1].workspace_upload.files = upload[1].records
            /\ \A i \in 1..Len(upload[1].files) : Attempted(1, i))
    /\ [][\A i \in 1..Len(upload[1].records) :
             upload'[1].records[i] = upload[1].records[i]]_vars

\* C18 witness: the script failed at its ensure-directory call and the file
\* after it was uploaded.
C18_Witness ==
    /\ Done(1)
    /\ Len(upload[1].records) = 2
    /\ upload[1].records[1].error = "ensure"
    /\ upload[1].records[2].success
    /\ Performed(1, "put")

\* The place of a remote call among the calls for one file.
CallRank(kind) == IF kind = "ensure" THEN 1 ELSE IF kind = "create" THEN 2 ELSE 3

\* C19: the batch is the script followed by the output files in ascending
\* path order; the remote calls go file by file in that order, the calls for
\* one file being over before the first call for the next; and the records
\* are in the order of the files.
C19_UploadOrder ==
    \A r \in Runs :
        LET files == upload[r].files
            records == upload[r].records
        IN /\ files # <<>> =>
                  /\ files[1] = script_path(r)
                  /\ \A i \in 2..Len(files) :
                         /\ files[i] = result[r].output_files[i - 1].path
                         /\ i > 2 => RelRank(files[i - 1][2]) < RelRank(files[i][2])
           /\ \A k \in 1..(Len(trace[r]) - 1) :
                  trace[r][k][1] \in RemoteCalls =>
                      /\ trace[r][k + 1][1] \in RemoteCalls
                      /\ \/ /\ trace[r][k + 1][2] = trace[r][k][2]
                            /\ CallRank(trace[r][k + 1][1]) = CallRank(trace[r][k][1]) + 1
                         \/ /\ trace[r][k + 1][2] = trace[r][k][2] + 1
                            /\ trace[r][k + 1][1] = "ensure"
           /\ \A k \in 1..Len(trace[r]) :
                  (trace[r][k][1] \in RemoteCalls /\ (k = 1 \/ trace[r][k - 1][1] \notin RemoteCalls)) =>
                      trace[r][k] = <<"ensure", 1>>
           /\ \A i \in 1..Len(records) : records[i].file = Basename(files[i][2])
           /\ (Done(r) /\ result[r].workspace_upload.kind = "batch") =>
                  result[r].workspace_upload.files = records

\* C19 witness: the script and two output files, each uploaded in turn.
C19_Witness ==
    /\ Done(1)
    /\ upload[1].files = <<script_path(1), <<run_dir[1], "out.csv">>,
                           <<run_dir[1], "sub/script.py">> >>
    /\ result[1].workspace_upload.kind = "batch"
    /\ result[1].workspace_upload.successful = 3

\* The three cases in which the claim says there is no content.
NoContentCase(f) ==
    \/ FileType(f.name) # "text"
    \/ f.size >= Ceiling
    \/ f.read # "ok"

\* C20 as stated: a record has content only for a text file below the
\* ceiling, the content is then the whole text, and for a file that is not
\* text, is at or above the ceiling or cannot be read the record has no
\* content but has size and type.
C20_Original ==
    file_info # NoInfo =>
        /\ file_info.has_content =>
               /\ file_info.type = "text"
               /\ file_info.size < Ceiling
               /\ file_info.content = FileText(probed_file.size)
        /\ NoContentCase(probed_file) =>
               /\ ~file_info.has_content
               /\ file_info.has_size /\ file_info.size = probed_file.size
               /\ file_info.has_type

\* C20 amended: the same, size and type being present when os.stat worked;
\* when it did not, the record has the path and an error and nothing else.
C20_ContentOnlyForSmallText ==
    file_info # NoInfo =>
        /\ file_info.has_content =>
               /\ file_info.type = "text"
               /\ file_info.size < Ceiling
               /\ file_info.content = FileText(probed_file.size)
        /\ (NoContentCase(probed_file) /\ probed_file.stat = "ok") =>
               /\ ~file_info.has_content
               /\ file_info.has_size /\ file_info.size = probed_file.size
               /\ file_info.has_type
        /\ probed_file.stat # "ok" =>
               /\ file_info.has_error
               /\ ~file_info.has_content /\ ~file_info.has_size /\ ~file_info.has_type

\* C20 witness: a text file of exactly the ceiling, reported with size and
\* type and without content.
C20_Witness ==
    /\ file_info # NoInfo
    /\ FileType(probed_file.name) = "text"
    /\ probed_file.size = Ceiling
    /\ probed_file.read = "ok"
    /\ include_contents
    /\ file_info.has_size /\ file_info.has_type /\ ~file_info.has_content

\* ---------------------------------------------- one file's upload
\* upload_file_to_workspace has returned.
Replied == upload_reply # NoReply

\* The kinds of the remote calls made for the file, in order.
Kinds == [i \in 1..Len(upload_reply.calls) |-> upload_reply.calls[i].kind]

Ensured == ensure_workspace_directory_exists(upload_call.ensure).success

NodeCreated == workspace_create_upload_node(upload_call.create).success

\* C21: the remote calls of one file are made in the order ensure-directory,
\* create-upload-node, PUT; create-upload-node is called only after
\* ensure-directory reported success, the PUT is sent only after
\* create-upload-node returned an upload URL, and after a step failed no later
\* call is made for the file.
C21_CallsInProtocolOrder ==
    Replied =>
        /\ Kinds \in {<<"ensure">>, <<"ensure", "create">>, <<"ensure", "create", "put">>}
        /\ Len(Kinds) >= 2 => Ensured
        /\ Len(Kinds) = 3 =>
               /\ NodeCreated
               /\ workspace_create_upload_node(upload_call.create).upload_url # NoUrl
        /\ ~Ensured => Kinds = <<"ensure">> /\ ~upload_reply.success
        /\ Ensured /\ ~NodeCreated =>
               Kinds = <<"ensure", "create">> /\ ~upload_reply.success

C21_Witness ==
    /\ Replied
    /\ Kinds = <<"ensure", "create", "put">>
    /\ upload_reply.success

\* The upload URL of the create-upload-node response, when it carries one.
ReturnedUrl == upload_call.create.url

\* A URL without a scheme.
Relative(url) ==
    /\ Strip(url) # NoUrl
    /\ ~StartsWith(url, {"http://", "https://", "ftp://"})

\* Its path, without the leading "/".
PathOf(url) == IF StartsWith(url, {"/"}) THEN Tail(url) ELSE url

\* The URLs of the PUT requests sent for the file.
PutTargets ==
    {upload_reply.calls[i].to :
        i \in {j \in 1..Len(upload_reply.calls) : upload_reply.calls[j].kind = "put"}}

\* C22 as stated: when create-upload-node returns a relative upload URL, in
\* the positional metadata array (index 11) or in the keyed object, the PUT
\* of the file goes to that URL resolved against the service base URL.
C22_RelativeUrlResolved ==
    (/\ Replied /\ Ensured
     /\ upload_call.file = "present"
     /\ upload_call.create.has_url
     /\ Relative(ReturnedUrl))
        => PutTargets = {ServiceUrl \o PathOf(ReturnedUrl)}

\* C23 as stated: of the errors of the ensure-directory call only an "already
\* exists" response counts as success; after any other error the record of
\* the file is a failure and neither create-upload-node nor the PUT is issued.
C23_OnlyAlreadyExistsTolerated ==
    Replied =>
        /\ (upload_call.ensure.raised
              /\ Contains(upload_call.ensure.text, <<"already", "exists">>)) => Ensured
        /\ (upload_call.ensure.raised
              /\ ~Contains(upload_call.ensure.text, <<"already", "exists">>)) =>
                 (~upload_reply.success /\ Kinds = <<"ensure">>)

\* The URL create-upload-node hands to the PUT step, after resolution.
UploadUrl == workspace_create_upload_node(upload_call.create).upload_url

Absolute(url) == StartsWith(url, {"http://", "https://"})

\* C24: a PUT is sent only to an absolute URL that starts with http:// or
\* https://; when create-upload-node yields no URL, an empty URL, or a URL that
\* is still not absolute after resolution, the record of the file is a failure
\* and no PUT is sent.
C24_PutOnlyToAbsoluteUrl ==
    Replied =>
        /\ \A url \in PutTargets : Absolute(url)
        /\ (\/ ~upload_call.create.has_url
            \/ Strip(ReturnedUrl) = NoUrl
            \/ ~Absolute(UploadUrl)) =>
               (~upload_reply.success /\ PutTargets = {})

\* create-upload-node succeeded with a URL that is not absolute.
C24_Witness ==
    /\ Replied
    /\ NodeCreated
    /\ ~Absolute(UploadUrl)
    /\ ~upload_reply.success
    /\ Kinds = <<"ensure", "create">>

\* A PUT request was sent.
PutSent == Replied /\ Kinds = <<"ensure", "create", "put">>

\* What the record says of a PUT that did not succeed, the body quoted up to
\* `quoted` characters.
PutFailureReported(quoted) ==
    /\ ~upload_reply.success
    /\ IF upload_call.put.raised
       THEN upload_reply.error.exception = upload_call.put.exception
       ELSE /\ upload_reply.error.has_status
            /\ upload_reply.error.status_code = upload_call.put.status_code
            /\ upload_reply.error.body = quoted

\* C25 as stated: the record of a file is a success exactly when its PUT
\* returned status 200; with any other status and with a transport error it
\* is a failure whose error message carries the status code and the response
\* body, or the text of the exception.
C25_Original ==
    Replied =>
        /\ upload_reply.success <=>
               (PutSent /\ ~upload_call.put.raised /\ upload_call.put.status_code = 200)
        /\ (PutSent /\ (upload_call.put.raised \/ upload_call.put.status_code # 200)) =>
               PutFailureReported(upload_call.put.body)

\* C25: the record of a file is a success exactly when its PUT returned status
\* 200; with any other status and with a transport error it is a failure whose
\* error message carries the status code and the first 200 characters of the
\* response body, or the text of the exception.
C25_SuccessOnlyOn200 ==
    Replied =>
        /\ upload_reply.success <=>
               (PutSent /\ ~upload_call.put.raised /\ upload_call.put.status_code = 200)
        /\ (PutSent /\ (upload_call.put.raised \/ upload_call.put.status_code # 200)) =>
               PutFailureReported(IF upload_call.put.body > BodyLimit
                                  THEN BodyLimit ELSE upload_call.put.body)

C25_Witness ==
    /\ PutSent
    /\ upload_call.put.status_code = 201
    /\ upload_call.put.body > BodyLimit
    /\ ~upload_reply.success
    /\ upload_reply.error.status_code = 201
    /\ upload_reply.error.body = BodyLimit

\* ------------------------------------------------------ single attempt
\* How many times the run made the call.
Count(r, event) == Cardinality({j \in 1..Len(trace[r]) : trace[r][j] = event})

\* C26 as stated: the container subprocess is spawned at most once per
\* request; for each file of the batch at most one ensure-directory call, one
\* create-upload-node call and one PUT are issued, whatever their outcomes; and
\* nothing of the request runs once its result is returned.
C26_SingleAttempt ==
    \A r \in Runs :
        /\ Count(r, Event("spawn")) <= 1
        /\ \A i \in 1..Len(upload[r].files), kind \in RemoteCalls :
               Count(r, <<kind, i>>) <= 1
        /\ Done(r) => proc[r] \notin {"running", "orphan"}

\* C27 as stated: after a timeout the result reports what the subprocess
\* emitted before it: output is the partial stdout, and the stderr it wrote is
\* in the result as after an exit of the process.
C27_PartialOutputReported ==
    \A r \in Runs :
        (outcome[r] = "timeout" /\ Done(r)) =>
            /\ result[r].output = emitted[r][1]
            /\ emitted[r][2] # "" => result[r].error = emitted[r][2]

\* ------------------------------------------------ symbolic links
\* C28 as stated: the paths are resolved through symbolic links before the
\* set difference, so two paths of the run folder that reach the same file
\* give one output_files entry, and a symbolic link to the script is not
\* reported.
C28_SymlinksResolved ==
    detected.done =>
        /\ \A f \in detected.paths, g \in detected.paths :
               realpath(f) = realpath(g) => f = g
        /\ \A f \in detected.paths : realpath(f) # realpath(EntryPath("script.py"))

\* ------------------------------------------------------- categories
\* C29 as stated: the type of every output_files record whose metadata was
\* extracted is one of image, text, document and unknown, whatever MIME type
\* is guessed for the file.
C29_TypeIsOneOfFour ==
    (file_info # NoInfo /\ file_info.has_type) =>
        file_info.type \in {"image", "text", "document", "unknown"}

\* ------------------------------------------------------- remote paths
\* os.path.join(workspace_dir, os.path.basename(file_path)), the workspace
\* directory being that of the run folder.
workspace_path(r, file_path) == <<run_dir[r], Basename(file_path[2])>>

\* C30 as stated: within one batch distinct local files are given distinct
\* remote workspace paths.
C30_DistinctRemotePaths ==
    \A r \in Runs :
        \A i \in 1..Len(upload[r].files), j \in 1..Len(upload[r].files) :
            upload[r].files[i] # upload[r].files[j] =>
                workspace_path(r, upload[r].files[i]) # workspace_path(r, upload[r].files[j])
====
